---- MODULE Spec2Model ----
(***************************************************************************)
(* A model of libxget-js: the shared stream cache (lib/streamCache.js) and *)
(* the fetch engine (the xget orchestrator, lib/index.js in its latest     *)
(* revision: metadata probe, range planner, resilient segments, ordered    *)
(* merge, hasher tap, lifecycle events).                                   *)
(*                                                                         *)
(* Bytes are integers.  A chunk is a record [null, bytes]: null = TRUE is  *)
(* the end-of-stream sentinel (JavaScript null), otherwise bytes is the    *)
(* Buffer's content.  Everything pushed to a slot's reader is recorded     *)
(* flat in pushed[s], the sentinel as EOS.                                 *)
(***************************************************************************)
EXTENDS Integers, Sequences, FiniteSets, TLC

VARIABLES
  \* ---- StreamCache #store (streamCache.js:38-50) and its items
  items,        \* slot -> [buffer, pendingWrites, pendingReads]
  length,       \* #store.length
  allocBuffer,  \* #store.allocBuffer: entries [slot, chunk, wf]
  maxCapacity,  \* #store.maxCapacity
  reallocate,   \* #store.reallocate
  \* ---- what the cache's callers observe
  pushed,       \* slot -> flat sequence handed to stream.push
  cbCount,      \* slot -> number of completion callbacks invoked
  writing,      \* slot -> a write was issued and its completion is outstanding
  threw,        \* the last cache call ended in a TypeError
  \* ---- the producers of the cache (bookkeeping of the environment)
  written,      \* slot -> flat sequence written so far (EOS for the sentinel)
  lowered,      \* setCapacity has lowered the capacity at least once
  \* ---- the xget instance (xonstructor's store and the streams around it)
  opts,         \* the options given to xget(url, opts)
  server,       \* the origin: [size, ranges]
  store,        \* xonstructor's store
  probe,        \* getContentStruct: [state, retryCount, requests, retryEvents]
  segs,         \* index -> the segment's resilient stream
  core,         \* the merge2 stream: [wired, cur, paused]
  self,         \* the XGETStream: [destroyed, deferred]
  output,       \* the bytes handed to this.push, in order
  events,       \* the lifecycle events emitted, in order
  error         \* the error the instance emitted, NoError if none

cacheVars == <<items, length, allocBuffer, maxCapacity, reallocate,
               pushed, cbCount, writing, threw, written, lowered>>

xgetVars == <<opts, server, store, probe, segs, core, self, output, events, error>>

vars == <<items, length, allocBuffer, maxCapacity, reallocate,
          pushed, cbCount, writing, threw, written, lowered,
          opts, server, store, probe, segs, core, self, output, events, error>>

----------------------------------------------------------------------------
(* Bounds of the model.                                                    *)

MaxBytes == 3          \* bytes a producer writes to one slot
MaxCap == 2            \* largest capacity tried
MaxPendingReads == 2   \* outstanding reads on one slot

\* the slots of the cache when it is driven directly
Slots == {0, 1}
\* how the sentinel shows in the flat sequences
EOS == 0 - 1

----------------------------------------------------------------------------
(* Sequence helpers.                                                       *)

Min(a, b) == IF a < b THEN a ELSE b

IsPrefix(p, q) == Len(p) <= Len(q) /\ \A i \in 1 .. Len(p) : p[i] = q[i]

\* Array.prototype.splice(index, 1), index counted from 0
RemoveAt(q, index) == SubSeq(q, 1, index) \o SubSeq(q, index + 2, Len(q))

\* Array.prototype.splice(index, 1, e)
ReplaceAt(q, index, e) == SubSeq(q, 1, index) \o <<e>> \o SubSeq(q, index + 2, Len(q))

RECURSIVE SumLen(_)
SumLen(buf) == IF buf = <<>> THEN 0 ELSE Len(Head(buf).bytes) + SumLen(Tail(buf))

RECURSIVE SumOver(_, _)
SumOver(f, S) == IF S = {} THEN 0
                 ELSE LET x == CHOOSE y \in S : TRUE IN f[x] + SumOver(f, S \ {x})

NullChunk == [null |-> TRUE, bytes |-> <<>>]
DataChunk(bs) == [null |-> FALSE, bytes |-> bs]

\* what stream.push(chunk) adds to the reader's side
Flat(chunk) == IF chunk.null THEN <<EOS>> ELSE chunk.bytes

----------------------------------------------------------------------------
(* StreamCache.  The operators work on a record st holding the store and   *)
(* the observations, so that one call (with every nested call) is one      *)
(* step.                                                                   *)

CacheState == [items |-> items, length |-> length, allocBuffer |-> allocBuffer,
               pushed |-> pushed, cbCount |-> cbCount, writing |-> writing,
               threw |-> FALSE]

\* #isFull
isFull(st, cap) == cap - st.length <= 0

\* stream.push(chunk) on the slot's CachingStream
Push(st, s, chunk) == [st EXCEPT !.pushed[s] = @ \o Flat(chunk)]

\* the completion callback of a write on slot s
Callback(st, s) == [st EXCEPT !.cbCount[s] = @ + 1, !.writing[s] = FALSE]

\* #readOn(stream, stack, altChunk, altHandler).  hasAlt: the call gives
\* altChunk (a Buffer or null) and the handler that splices allocBuffer at
\* altIndex and calls the completion.  Result: [ok, st].
readOn(st, s, hasAlt, altChunk, altIndex) ==
  LET stack == st.items[s] IN
  IF stack.pendingReads > 0 /\ Len(stack.buffer) > 0
  THEN LET chunk == Head(stack.buffer)
           st1 == [st EXCEPT !.items[s].buffer = Tail(@),
                             !.length = IF chunk.null THEN @ ELSE @ - Len(chunk.bytes),
                             !.items[s].pendingReads = @ - 1,
                             !.items[s].pendingWrites = @ - 1]
       IN [ok |-> TRUE, st |-> Push(st1, s, chunk)]
  ELSE IF stack.pendingReads > 0 /\ hasAlt
  THEN LET st1 == [st EXCEPT !.items[s].pendingReads = @ - 1,
                             !.items[s].pendingWrites = @ - 1]
           st2 == Push(st1, s, altChunk)
           st3 == [st2 EXCEPT !.allocBuffer = RemoveAt(@, altIndex)]
       IN [ok |-> TRUE, st |-> Callback(st3, s)]
  ELSE [ok |-> FALSE, st |-> st]

\* chunk.slice(0, availableCapacity) and chunk.slice(availableCapacity)
SliceHeadShort(bytes, avail) == SubSeq(bytes, 1, avail - 1)
SliceHead(bytes, avail) == SubSeq(bytes, 1, avail)
SliceTailKeep(bytes, avail) == SubSeq(bytes, avail, Len(bytes))
SliceTail(bytes, avail) == SubSeq(bytes, avail + 1, Len(bytes))

\* one admission of dispatchAllocs' else-branch (streamCache.js:129-143) for
\* the well-formed entry e at index
Admit(st, cap, realloc, index, e) ==
  LET s == e.slot
      avail == cap - st.length
      over == ~e.chunk.null /\ Len(e.chunk.bytes) > avail
      chunk == IF over THEN DataChunk(SliceHead(e.chunk.bytes, avail)) ELSE e.chunk
      overflow == IF over
                  THEN DataChunk(SliceTail(e.chunk.bytes, avail))
                  ELSE NullChunk
      st1 == [st EXCEPT !.length = IF chunk.null THEN @ ELSE @ + Len(chunk.bytes),
                        !.items[s].buffer = Append(@, chunk)]
      st2 == [st1 EXCEPT !.allocBuffer =
                IF over /\ ~realloc
                THEN ReplaceAt(@, index, [slot |-> s, chunk |-> overflow, wf |-> TRUE])
                ELSE RemoveAt(@, index)]
      \* {...props, chunk: overflow}: props is the array splice returned, so
      \* the entry pushed has a chunk but no stream, stack or callback
      st3 == IF over /\ realloc
             THEN [st2 EXCEPT !.allocBuffer =
                     Append(@, [slot |-> s, chunk |-> overflow, wf |-> FALSE])]
             ELSE st2
      st4 == IF ~over THEN Callback(st3, s)
             ELSE [st3 EXCEPT !.items[s].pendingWrites = @ + 1]
  IN IF st4.items[s].pendingReads > 0
     THEN readOn(st4, s, FALSE, NullChunk, 0).st
     ELSE st4

\* the entry without stream, stack and callback: isFull, then either
\* readOn(undefined, undefined, ...) or stack.buffer.push raise a TypeError;
\* in the second case length has been raised already
AdmitMalformed(st, cap, e) ==
  IF isFull(st, cap) THEN [st EXCEPT !.threw = TRUE]
  ELSE LET avail == cap - st.length
           n == IF e.chunk.null THEN 0 ELSE Min(Len(e.chunk.bytes), avail)
       IN [st EXCEPT !.length = @ + n, !.threw = TRUE]

\* F applied to the value of v, v evaluated once
Bind(F(_), v) == CHOOSE out \in {F(x) : x \in {v}} : TRUE

\* dispatchAllocs: the while loop from position index
RECURSIVE dispatchLoop(_, _, _, _)
dispatchLoop(st, cap, realloc, index) ==
  IF index >= Len(st.allocBuffer) THEN st
  ELSE LET e == st.allocBuffer[index + 1] IN
       IF ~e.wf THEN AdmitMalformed(st, cap, e)
       ELSE IF isFull(st, cap)
       THEN Bind(LAMBDA r : IF r.ok THEN dispatchLoop(r.st, cap, realloc, index)
                            ELSE dispatchLoop(st, cap, realloc, index + 1),
                 readOn(st, e.slot, TRUE, e.chunk, index))
       ELSE Bind(LAMBDA st1 : dispatchLoop(st1, cap, realloc, index),
                 Admit(st, cap, realloc, index, e))

dispatchAllocs(st, cap, realloc) == dispatchLoop(st, cap, realloc, 0)

\* #allocOn(stream, stack, chunk, callback)
allocOnEager(st, cap, realloc, s, chunk) ==
  LET stack == st.items[s] IN
  IF stack.pendingWrites > 0 \/ stack.pendingReads = 0
  THEN Callback([st EXCEPT !.items[s].pendingWrites = @ + 1,
                           !.allocBuffer = Append(@, [slot |-> s, chunk |-> chunk, wf |-> TRUE])],
                s)
  ELSE Callback([Push(st, s, chunk) EXCEPT !.items[s].pendingReads = @ - 1], s)
allocOn(st, cap, realloc, s, chunk) ==
  LET stack == st.items[s] IN
  IF stack.pendingWrites > 0 \/ stack.pendingReads = 0
  THEN dispatchAllocs(
         [st EXCEPT !.items[s].pendingWrites = @ + 1,
                    !.allocBuffer = Append(@, [slot |-> s, chunk |-> chunk, wf |-> TRUE])],
         cap, realloc)
  ELSE Callback([Push(st, s, chunk) EXCEPT !.items[s].pendingReads = @ - 1], s)

\* cacheBytesOn(stream, chunk, callback) for a stream of this cache
cacheBytesOn(st, cap, realloc, s, chunk) ==
  allocOn([st EXCEPT !.writing[s] = TRUE], cap, realloc, s, chunk)

\* readBytesOn(stream)
readBytesOnNoDispatch(st, cap, realloc, s) ==
  LET st1 == [st EXCEPT !.items[s].pendingReads = @ + 1]
  IN readOn(st1, s, FALSE, NullChunk, 0).st
readBytesOn(st, cap, realloc, s) ==
  LET st1 == [st EXCEPT !.items[s].pendingReads = @ + 1]
      r == readOn(st1, s, FALSE, NullChunk, 0)
  IN IF r.ok THEN r.st ELSE dispatchAllocs(st1, cap, realloc)

\* the store after a call
SetCache(st) ==
  /\ items' = st.items
  /\ length' = st.length
  /\ allocBuffer' = st.allocBuffer
  /\ pushed' = st.pushed
  /\ cbCount' = st.cbCount
  /\ writing' = st.writing
  /\ threw' = st.threw

----------------------------------------------------------------------------
(* The range planner and the metadata probe's result.                      *)

\* JavaScript's Infinity and null, as numbers no size of the model reaches
Infinity == 1000000
NoValue == 0 - 2

IsFinite(x) == x # Infinity /\ x # NoValue
Minus(a, b) == IF a = Infinity THEN Infinity ELSE a - b

\* parseSplitSpec(total, numberOfparts)
parseSplitSpecEven(total, numberOfparts) ==
  LET chunkSize == IF total = Infinity THEN Infinity ELSE total \div numberOfparts IN
  [total |-> total, chunkSize |-> chunkSize, numberOfparts |-> numberOfparts,
   lastChunkSize |-> chunkSize]
parseSplitSpec(total, numberOfparts) ==
  LET chunkSize == IF total = Infinity THEN Infinity ELSE total \div numberOfparts IN
  [total |-> total,
   chunkSize |-> chunkSize,
   numberOfparts |-> numberOfparts,
   lastChunkSize |-> IF numberOfparts # 1
                     THEN total - chunkSize * (numberOfparts - 1)
                     ELSE chunkSize]

\* the upper end of a range: max = min + v - 1
RangeMax(min, v) == IF v = Infinity THEN Infinity ELSE min + v - 1

\* where the range after one ending at prevMax starts: r[i - 1].max + 1
NextMinAtPrevMax(prevMax) == prevMax
NextMin(prevMax) == prevMax + 1

\* buildChunks(url, spec, opts, {retries, start}): the ranges, by index
RECURSIVE buildChunks(_, _, _)
buildChunks(spec, start, i) ==
  LET v == IF i < spec.numberOfparts - 1 THEN spec.chunkSize ELSE spec.lastChunkSize
      min == IF i = 0 THEN start ELSE NextMin(buildChunks(spec, start, i - 1).max)
  IN [min |-> min, max |-> RangeMax(min, v), size |-> v]

\* the Range header of a segment's request (part_001:278):
\* bytes=${min + bytesRead}-${Number.isFinite(max) ? max : ''}
NoUpper == 0 - 1
RangeFrom(min, bytesRead) == min + bytesRead
RangeHeader(data, bytesRead) ==
  [from |-> RangeFrom(data.min, bytesRead),
   to |-> IF IsFinite(data.max) THEN data.max ELSE NoUpper]

\* getContentStruct after the response arrived (part_001:309-317): the
\* headers as xHeadData sees them.  resp = [status, cl, cr, ar, total]: the
\* status, whether content-length, content-range and accept-ranges: bytes
\* are present, and the resource's size.
getContentStruct(resp) ==
  LET un0 == IF resp.status = 416 THEN "true" ELSE "undefined" IN
  [status |-> resp.status,
   ar |-> resp.ar,
   clIsString |-> resp.cl,
   contentLength |-> IF resp.cl THEN resp.total
                     ELSE IF resp.cr THEN resp.total ELSE Infinity,
   unHEADRangeable |-> IF ~resp.cl /\ resp.cr THEN "false" ELSE un0]

\* checkIsValidStatusCode
checkIsValidStatusCode(status) == status \div 100 = 2

\* await store.headHandler({...}) (part_001:329-335)
CallHeadHandlerTwice(st) == [st EXCEPT !.headCalls = @ + 2]
CallHeadHandler(st) == [st EXCEPT !.headCalls = @ + 1]

\* store.start = !acceptsRanges ? 0 : typeof offset === 'number' ? offset
\* : store.start (part_001:335)
StartOffsetAlways(acceptsRanges, offset, start) ==
  IF offset # NoValue THEN offset ELSE start
StartOffset(acceptsRanges, offset, start) ==
  IF ~acceptsRanges THEN 0
  ELSE IF offset # NoValue THEN offset ELSE start

\* if (store.size < store.chunks) store.chunks = store.size < 5 ? 1 : 5
\* (part_001:337)
ChunkCountConfigured(size, chunks) == chunks
ChunkCount(size, chunks) ==
  IF size < chunks THEN (IF size < 5 THEN 1 ELSE 5) ELSE chunks

\* xHeadData from the probe's data on (part_001:323-344); offset is what
\* headHandler returned (NoValue: not a number).  The store with the plan.
xHeadData(st, o, data, offset) ==
  LET acceptsRanges == IF data.unHEADRangeable = "undefined" THEN data.ar
                       ELSE data.unHEADRangeable = "false"
      \* headers['content-length'] ? parseFloat(...) : Infinity
      total == IF IsFinite(st.size) THEN st.totalSize
               ELSE IF data.clIsString \/ data.contentLength # 0 THEN data.contentLength
               ELSE Infinity
      chunkable == acceptsRanges /\ IsFinite(total)
      chunks1 == IF chunkable THEN st.chunks ELSE 1
      start == StartOffset(acceptsRanges, offset, st.start)
      size == IF IsFinite(st.size) THEN st.size ELSE Minus(total, start)
      chunks2 == ChunkCount(size, chunks1)
      spec == parseSplitSpec(size, chunks2)
  IN [CallHeadHandler(st) EXCEPT !.totalSize = total,
                !.acceptsRanges = acceptsRanges,
                !.chunkable = chunkable,
                !.chunks = chunks2,
                !.start = start,
                !.size = size,
                !.segRetries = IF chunkable THEN o.retries ELSE 1,
                !.chunkStack = [i \in 0 .. (chunks2 - 1) |-> buildChunks(spec, start, i)]]

----------------------------------------------------------------------------
(* The cache driven directly through its API.                              *)

EmptyStack == [buffer |-> <<>>, pendingWrites |-> 0, pendingReads |-> 0]

NoError == [kind |-> "none"]

\* no xget instance: the cache is used on its own
NoInstance ==
  /\ opts = <<>> /\ server = <<>> /\ store = <<>> /\ probe = <<>>
  /\ segs = <<>> /\ core = <<>> /\ self = <<>>
  /\ output = <<>> /\ events = <<>> /\ error = NoError

\* the k-th byte a producer writes to slot s
ByteOf(s, k) == 10 * s + k

DataWritten(s) == Len(SelectSeq(written[s], LAMBDA b : b # EOS))
Finaled(s) == Len(written[s]) > 0 /\ written[s][Len(written[s])] = EOS
Ended(s) == Len(pushed[s]) > 0 /\ pushed[s][Len(pushed[s])] = EOS

InitCache ==
  /\ items = [s \in Slots |-> EmptyStack]
  /\ length = 0
  /\ allocBuffer = <<>>
  /\ maxCapacity \in 0 .. MaxCap
  /\ reallocate \in BOOLEAN
  /\ pushed = [s \in Slots |-> <<>>]
  /\ cbCount = [s \in Slots |-> 0]
  /\ writing = [s \in Slots |-> FALSE]
  /\ threw = FALSE
  /\ written = [s \in Slots |-> <<>>]
  /\ lowered = FALSE
  /\ NoInstance

\* CachingStream._write: a producer writes its next n bytes to slot s
CacheWrite(s, n) ==
  /\ ~writing[s] /\ ~Finaled(s)
  /\ DataWritten(s) + n <= MaxBytes
  /\ LET bs == [i \in 1 .. n |-> ByteOf(s, DataWritten(s) + i)] IN
     /\ written' = [written EXCEPT ![s] = @ \o bs]
     /\ \E st \in {cacheBytesOn(CacheState, maxCapacity, reallocate, s, DataChunk(bs))} :
          SetCache(st)
  /\ UNCHANGED <<maxCapacity, reallocate, lowered>>
  /\ UNCHANGED xgetVars

\* CachingStream._final: the producer ends slot s
CacheFinal(s) ==
  /\ ~writing[s] /\ ~Finaled(s)
  /\ written' = [written EXCEPT ![s] = Append(@, EOS)]
  /\ \E st \in {cacheBytesOn(CacheState, maxCapacity, reallocate, s, NullChunk)} :
       SetCache(st)
  /\ UNCHANGED <<maxCapacity, reallocate, lowered>>
  /\ UNCHANGED xgetVars

\* CachingStream._read: the consumer asks slot s for data
CacheRead(s) ==
  /\ ~Ended(s)
  /\ items[s].pendingReads < MaxPendingReads
  /\ \E st \in {readBytesOn(CacheState, maxCapacity, reallocate, s)} :
       SetCache(st)
  /\ UNCHANGED <<maxCapacity, reallocate, written, lowered>>
  /\ UNCHANGED xgetVars

\* setCapacity(capacity)
setCapacityClamping(n) ==
  /\ n # maxCapacity
  /\ maxCapacity' = n
  /\ length' = Min(length, n)
  /\ lowered' = (lowered \/ n < maxCapacity)
  /\ UNCHANGED <<items, allocBuffer, reallocate, pushed, cbCount,
                 writing, threw, written>>
  /\ UNCHANGED xgetVars
setCapacity(n) ==
  /\ n # maxCapacity
  /\ maxCapacity' = n
  /\ lowered' = (lowered \/ n < maxCapacity)
  /\ UNCHANGED <<items, length, allocBuffer, reallocate, pushed, cbCount,
                 writing, threw, written>>
  /\ UNCHANGED xgetVars

NextCache ==
  \/ \E s \in Slots, n \in 1 .. MaxBytes : CacheWrite(s, n)
  \/ \E s \in Slots : CacheFinal(s)
  \/ \E s \in Slots : CacheRead(s)
  \/ \E n \in 0 .. MaxCap : setCapacity(n)

SpecCache == InitCache /\ [][NextCache]_vars

\* The cache under its intended use (xget's merge): reallocate = false, the
\* capacity fixed at construction, every producer writing a finite sequence
\* of chunks and then the sentinel, the consumer reading the slots in index
\* order (the lowest slot whose sentinel it has not received).
InitCacheLive == InitCache /\ reallocate = FALSE

CurrentSlot == CHOOSE s \in Slots : ~Ended(s) /\ \A t \in Slots : t < s => Ended(t)

ConsumerRead ==
  /\ \E s \in Slots : ~Ended(s)
  /\ CacheRead(CurrentSlot)

ProducerStep(s) ==
  \/ \E n \in 1 .. MaxBytes : CacheWrite(s, n)
  \/ CacheFinal(s)

NextCacheLive ==
  \/ \E s \in Slots : ProducerStep(s)
  \/ ConsumerRead

\* the event loop runs every producer whose previous write completed, and
\* the consumer asks again whenever it may
SpecCacheLive ==
  /\ InitCacheLive /\ [][NextCacheLive]_vars
  /\ \A s \in Slots : WF_vars(ProducerStep(s))
  /\ WF_vars(ConsumerRead)

----------------------------------------------------------------------------
(* Properties of the cache.                                                *)

\* the bytes held in the slots' buffers
Buffered == SumOver([s \in DOMAIN items |-> SumLen(items[s].buffer)], DOMAIN items)

\* C3: with reallocate = false, whatever the capacity, the order of the
\* calls and the splits and bypasses they cause, what a slot pushed to its
\* reader is a prefix of what was written to the slot, chunk after chunk
\* and the end-of-stream sentinel last.
C3_SlotOrder ==
  ~reallocate => \A s \in DOMAIN pushed : IsPrefix(pushed[s], written[s])

\* C3's case: a chunk was split, its head was pushed to the reader while
\* its tail still waits, the write not completed
C3_SplitPushed ==
  /\ ~reallocate
  /\ \E s \in DOMAIN pushed :
       /\ writing[s] /\ cbCount[s] = 0
       /\ Len(pushed[s]) > 0 /\ Len(pushed[s]) < Len(written[s])
       /\ \E k \in 1 .. Len(allocBuffer) : allocBuffer[k].slot = s

\* C4: while setCapacity never lowers the capacity, after every
\* cacheBytesOn and readBytesOn, length is the number of bytes held in the
\* slots' buffers and lies between 0 and maxCapacity.
C4_LengthAccounting ==
  ~lowered => /\ length = Buffered
              /\ 0 <= length /\ length <= maxCapacity

\* C4's failing state: the re-queued overflow entry was admitted, length
\* counts bytes no slot holds
C4_LengthDrift ==
  /\ reallocate /\ ~lowered /\ threw
  /\ length > Buffered

\* C5: after any call returns, no slot has both pendingWrites > 0 and
\* pendingReads > 0.
C5_NoWaitingReaderWithData ==
  \A s \in DOMAIN items :
    ~(items[s].pendingWrites > 0 /\ items[s].pendingReads > 0)

\* C5's failing state: a reader waits on a slot whose chunk is queued
\* behind the entry that makes every dispatch throw
C5_ReaderStarved ==
  /\ reallocate
  /\ \E s \in DOMAIN items :
       /\ items[s].pendingWrites > 0 /\ items[s].pendingReads > 0
       /\ \E k \in 1 .. Len(allocBuffer) :
            allocBuffer[k].wf /\ allocBuffer[k].slot = s
  /\ \E k \in 1 .. Len(allocBuffer) : ~allocBuffer[k].wf

----------------------------------------------------------------------------
(* The xget instance: probe, initHead, segments, merge and output.         *)

MaxSize == 2           \* largest resource, in bytes
MaxChunks == 2         \* largest configured chunk count
MaxRetries == 1        \* largest configured retry count
MaxCacheSize == 1      \* largest configured cache capacity, in bytes

\* the byte of the resource at offset o
ResourceByte(o) == 100 + o
Resource(a, b) == [i \in 1 .. (b - a + 1) |-> ResourceByte(a + i - 1)]

\* The origins: "range" honours the Range header and says so
\* (206, content-length, content-range, accept-ranges: bytes); "plain"
\* ignores the header and sends the whole resource with its length;
\* "stream" honours the header and says accept-ranges: bytes, but sends
\* neither content-length nor content-range.
ServerKinds == {"range", "plain", "stream"}
HonoursRange == server.kind # "plain"

\* an origin of a kind, with the headers of its answer to the probe:
\* content-length, content-range, accept-ranges: bytes
ServerOf(size, kind) ==
  [size |-> size, kind |-> kind,
   cl |-> kind # "stream", cr |-> kind = "range", ar |-> kind # "plain"]

\* the probe's 2xx response as getContentStruct reads it
ProbeResponse ==
  [status |-> IF server.cr THEN 206 ELSE 200,
   cl |-> server.cl, cr |-> server.cr, ar |-> server.ar,
   total |-> server.size]

\* a range that starts past the end of the resource is answered 416, which
\* the segment's stream sees as an error
Satisfiable(req) == ~HonoursRange \/ req.from < server.size

\* the body the origin sends for a ranged GET: the range, cut at the end
\* of the resource; an origin that ignores the header sends the whole
\* resource whatever was asked
Body(req) ==
  IF ~HonoursRange THEN Resource(0, server.size - 1)
  ELSE IF ~Satisfiable(req) THEN <<>>
  ELSE Resource(req.from,
                IF req.to = NoUpper THEN server.size - 1
                ELSE Min(req.to, server.size - 1))

\* xonstructor (part_001:488-534) with the options taken in
NewStore(o) ==
  [rQd |-> FALSE, loaded |-> FALSE, ended |-> FALSE,
   size |-> o.size, totalSize |-> NoValue,
   start |-> o.start, chunks |-> o.chunks, retries |-> o.retries,
   segRetries |-> o.retries, chunkable |-> TRUE, chunkStack |-> <<>>,
   bytesRead |-> 0, onRQd |-> FALSE,
   hasher |-> o.hash, hashFed |-> <<>>, hashData |-> <<NoValue>>,
   auto |-> o.auto,
   \* the tags of opts.use and opts.with; useThrows, withThrows: one of
   \* the functions given throws when it is called
   pipeStack |-> {}, withStack |-> {},
   useThrows |-> o.useThrows, withThrows |-> o.withThrows,
   \* the entries of opts.with and opts.use, in order, by tag; the with
   \* functions and the use factories that were called and returned
   withFns |-> o.withFns, useFns |-> o.useFns,
   withRan |-> <<>>, useRan |-> <<>>,
   \* how the use factory that fails does so: it throws, or it returns a
   \* value that is no stream (an object without on, once and pipe)
   useFails |-> o.useFails,
   \* observations: calls of headHandler and of handleLoad, and whether
   \* handleLoad ran before set was emitted or before the first pull;
   \* xHeadData's acceptsRanges; the calls of headHandler made when loaded
   \* was emitted
   headCalls |-> 0, loads |-> 0, early |-> FALSE,
   acceptsRanges |-> FALSE, headAtLoaded |-> NoValue]

\* crypto.Hash: the digest of the bytes fed to the hasher
Digest(fed) == <<Len(fed)>> \o fed

\* getHash (part_001:564-571) on a store: null without a hasher, the stored
\* digest once ended, else the digest of a copy of the running hasher
getHash(st) ==
  IF ~st.hasher THEN <<NoValue>>
  ELSE IF st.ended THEN st.hashData
  ELSE Digest(st.hashFed)

IdleSeg == [state |-> "idle", bytesRead |-> 0, retryCount |-> 0,
            req |-> [from |-> 0, to |-> 0], recv |-> 0]

NSegs == IF store.chunkStack = <<>> THEN 0
         ELSE Cardinality(DOMAIN store.chunkStack)
SegIds == 0 .. (NSegs - 1)

\* the options the download itself does not vary: no size, auto start,
\* no middleware, no listener that pulls, the default headHandler (which
\* returns nothing)
PlainOptions == [size |-> NoValue, auto |-> TRUE, useThrows |-> FALSE,
                 withThrows |-> FALSE, pullIn |-> "none",
                 headReturn |-> NoValue, withFns |-> <<>>, useFns |-> <<>>,
                 useFails |-> "throws"]

\* no call of use(), with() or start() yet
NoCall == [op |-> "none", ok |-> FALSE, loaded |-> FALSE, phase |-> "none",
           pipeStack |-> {}, withStack |-> {}]

\* xonstructor (part_001:487-592) for the options opts
Constructed ==
  /\ store = NewStore(opts)
  \* store.auto: initHead runs in the constructor and sends the probe
  /\ probe = [state |-> IF opts.auto THEN "inflight" ELSE "idle",
              retryCount |-> 0,
              requests |-> IF opts.auto THEN 1 ELSE 0,
              begun |-> IF opts.auto THEN 1 ELSE 0,
              retryEvents |-> <<>>, lastErr |-> NoValue]
  /\ segs = <<>>
  /\ core = [wired |-> FALSE, cur |-> 0, paused |-> FALSE]
  /\ self = [destroyed |-> FALSE, deferred |-> FALSE, cause |-> NoError,
             pendingErr |-> NoError, outAtError |-> NoValue,
             pulled |-> FALSE,
             started |-> FALSE, startRet |-> "none",
             earlyDestroy |-> FALSE, reqAtDestroy |-> NoValue,
             firstErr |-> NoError, uncaught |-> FALSE,
             lastCall |-> NoCall]
  /\ output = <<>>
  /\ events = <<>>
  /\ error = NoError
  \* new StreamCache({size: 209715200}), then setCapacity(opts.cacheSize)
  /\ items = <<>> /\ pushed = <<>> /\ cbCount = <<>> /\ writing = <<>>
  /\ written = <<>>
  /\ length = 0 /\ allocBuffer = <<>>
  /\ maxCapacity = opts.cacheSize
  /\ reallocate = FALSE
  /\ threw = FALSE /\ lowered = FALSE

InitXget ==
  /\ server \in {ServerOf(n, k) : n \in 1 .. MaxSize, k \in ServerKinds}
  /\ opts \in {o @@ PlainOptions :
                 o \in [start : 0 .. (MaxSize + 1), chunks : 1 .. MaxChunks,
                        retries : 0 .. MaxRetries, hash : BOOLEAN,
                        cacheSize : 0 .. MaxCacheSize]}
  /\ opts.start <= server.size + 1
  /\ Constructed

\* Readable.destroy(err) with _destroy (part_001:549-559) on the state
\* x = [store, segs, self, events, error]
\* cb(err) makes the stream emit 'error' on the next tick, once the
\* handler that is running has returned
doDestroy(x, err) ==
  [x EXCEPT !.segs = [i \in DOMAIN x.segs |->
                        IF x.segs[i].state \in {"idle", "open"}
                        THEN [x.segs[i] EXCEPT !.state = "destroyed"]
                        ELSE x.segs[i]],
            !.self.pendingErr = err]

\* this.emit('error', err); the output's length at the first error and
\* the first error are kept
EmitError(x, err) ==
  [x EXCEPT !.events = Append(@, "error"),
            !.error = err,
            !.self.firstErr = IF \E k \in 1 .. Len(x.events) : x.events[k] = "error"
                              THEN @ ELSE err,
            !.self.outAtError = IF \E k \in 1 .. Len(x.events) : x.events[k] = "error"
                                THEN @ ELSE Len(x.output)]

\* the next tick after a handler: the error given to _destroy's callback
FlushTick(x) ==
  IF x.self.pendingErr = NoError THEN x
  ELSE EmitError([x EXCEPT !.self.pendingErr = NoError], x.self.pendingErr)

destroy(x, err) ==
  IF x.self.destroyed THEN x
  ELSE LET x1 == [x EXCEPT !.self.destroyed = TRUE] IN
       IF x1.store.loaded THEN doDestroy(x1, err)
       ELSE \* this.once('loaded', doDestroy)
            [x1 EXCEPT !.self.deferred = TRUE, !.self.cause = err]

\* the middleware given in the options of a run, by tag and in the order of
\* its entries; when one throws it is the one tagged Thrower
Middleware == <<"a", "b", "c">>
Thrower == "b"

\* the position in fns of the function that throws, 0 when none does
ThrowAt(fns, throws) ==
  IF throws /\ \E k \in 1 .. Len(fns) : fns[k] = Thrower
  THEN CHOOSE k \in 1 .. Len(fns) : fns[k] = Thrower
  ELSE 0

\* Object.entries(store.withStack).forEach (part_001:458-468): the
\* functions that ran and returned when the k-th threw (k = 0: none threw)
WithRanThrough(fns, k) == fns
WithRan(fns, k) == IF k = 0 THEN fns ELSE SubSeq(fns, 1, k - 1)

\* getErrContext (part_001:591): the tag and source an error was given
getErrContext(err) ==
  IF err.kind \in {"with", "use"}
  THEN [tag |-> err.tag, source |-> err.source]
  ELSE [tag |-> "none", source |-> "none"]

\* handleLoad (part_001:416-439) with handleChunk for every entry of the
\* plan: each resilient stream sends its first request and is piped into a
\* new slot of the cache; the slots are added to the merge stream in order
\* pipeAll (part_001:356-381) when a use function throws: the error is
\* tagged and the instance destroyed with it, nothing is wired
handleLoad(x) ==
  LET x0 == [x EXCEPT
               !.store.loads = @ + 1,
               !.store.early = @ \/ ~x.self.pulled
                                 \/ ~(\E k \in 1 .. Len(x.events) : x.events[k] = "set")]
      k == ThrowAt(x0.store.useFns, x0.store.useThrows)
  IN IF x0.store.useThrows
     THEN \* pipeAll for the first entry of the plan: the factories before
          \* the failing one return, the catch destroys the instance with
          \* the tagged error and cuts the entries short; then
          \* dest && xStream.pipe(dest.once(...)) (part_001:377) throws a
          \* TypeError out of handleLoad when dest is a value without once
          LET y == destroy([x0 EXCEPT !.store.useRan =
                                        IF k = 0 THEN x0.store.useFns
                                        ELSE SubSeq(x0.store.useFns, 1, k - 1)],
                           [kind |-> "use", index |-> NoValue, status |-> 0,
                            tag |-> IF k = 0 THEN "none" ELSE x0.store.useFns[k],
                            source |-> "xget:use"])
          IN [y EXCEPT !.self.uncaught = (x0.store.useFails = "value")]
     ELSE \* every factory is called for every entry: dest = fn(data,
          \* store.stack) (part_001:362)
          [x0 EXCEPT !.store.useRan = x0.store.useFns,
                     !.segs = [i \in DOMAIN x.store.chunkStack |->
                                 IF x.segs[i].state = "idle"
                                 THEN [x.segs[i] EXCEPT
                                         !.state = "open",
                                         !.req = RangeHeader(x.store.chunkStack[i], 0)]
                                 ELSE x.segs[i]],
                     !.core.wired = TRUE]

\* _read (part_001:543-548)
readLoadsWhenLoaded(x) ==
  LET x0 == [x EXCEPT !.self.pulled = TRUE] IN
  IF x0.store.loaded /\ x0.store.size > 0
  THEN [handleLoad(x0) EXCEPT !.store.rQd = TRUE]
  ELSE [x0 EXCEPT !.store.rQd = TRUE]
read(x) ==
  LET x0 == [x EXCEPT !.self.pulled = TRUE] IN
  IF ~x0.store.rQd
  THEN LET x1 == IF x0.store.loaded /\ x0.store.onRQd
                 THEN handleLoad([x0 EXCEPT !.store.onRQd = FALSE])
                 ELSE x0
       IN [x1 EXCEPT !.store.rQd = TRUE]
  ELSE [x0 EXCEPT !.core.paused = FALSE]

\* a listener of the event ev that calls read() on the instance
ListenerPull(x, ev) ==
  IF opts.pullIn = ev /\ ~x.self.destroyed THEN read(x) ELSE x

\* this.push(chunk) of the XGETStream: ignored once destroyed
PushOut(x, bytes) ==
  IF x.self.destroyed THEN x ELSE [x EXCEPT !.output = @ \o bytes]
PushEnd(x) ==
  IF x.self.destroyed THEN x ELSE [x EXCEPT !.events = Append(@, "end")]

\* initHead's catch (part_001:473-484) for what the then-handler threw:
\* the exception is emitted as an error
Caught(x) ==
  IF x.self.uncaught
  THEN EmitError([x EXCEPT !.self.uncaught = FALSE],
                 [kind |-> "type", index |-> NoValue, status |-> 0])
  ELSE x

\* if (loadData.size < 0) (part_001:446)
RangeExceededNever(size) == FALSE
RangeExceeded(size) == size < 0

\* if (loadData.size === 0) (part_001:452)
EmptyRangeNever(size) == FALSE
EmptyRange(size) == size = 0

\* the then-handler of initHead (part_001:444-472) once xHeadData settled
initHeadThen(x) ==
  LET x1 == [x EXCEPT !.store.loaded = TRUE] IN
  IF RangeExceeded(x1.store.size)
  THEN destroy(x1, [kind |-> "range", index |-> NoValue, status |-> 0])
  ELSE IF EmptyRange(x1.store.size)
  THEN PushEnd([x1 EXCEPT !.store.ended = TRUE])
  ELSE LET x2a == ListenerPull([x1 EXCEPT !.events = Append(@, "loaded"),
                                          !.store.headAtLoaded = x1.store.headCalls],
                               "loaded")
           \* the listener a destroy() before the probe completed left
           x2 == IF x2a.self.deferred
                 THEN doDestroy([x2a EXCEPT !.self.deferred = FALSE], x2a.self.cause)
                 ELSE x2a
           k == ThrowAt(x2.store.withFns, x2.store.withThrows)
           x2r == [x2 EXCEPT !.store.withRan = WithRan(x2.store.withFns, k)]
           x3 == ListenerPull([x2r EXCEPT !.events = Append(@, "set")], "set")
       IN IF x2r.store.withRan # x2.store.withFns
          THEN \* a with function throws: initHead's catch emits the error
               EmitError(x2r, [kind |-> "with", index |-> NoValue, status |-> 0,
                               tag |-> x2.store.withFns[Len(x2r.store.withRan) + 1],
                               source |-> "xget:with"])
          ELSE IF x3.store.rQd THEN Caught(handleLoad(x3))
          ELSE [x3 EXCEPT !.store.onRQd = TRUE]

XState == [store |-> store, segs |-> segs, core |-> core, self |-> self,
           output |-> output, events |-> events, error |-> error]

SetX(x) ==
  \E y \in {Bind(FlushTick, x)} :
    /\ store' = y.store
    /\ segs' = y.segs
    /\ core' = y.core
    /\ self' = y.self
    /\ output' = y.output
    /\ events' = y.events
    /\ error' = y.error

\* the probe's response arrives with a 2xx status
ProbeOk ==
  /\ probe.state = "inflight"
  /\ LET st == xHeadData(store, opts, getContentStruct(ProbeResponse),
                         opts.headReturn)
         n == Cardinality(DOMAIN st.chunkStack)
     IN /\ SetX(initHeadThen([XState EXCEPT
                                !.store = st,
                                !.segs = [i \in 0 .. (n - 1) |-> IdleSeg]]))
        /\ items' = [i \in 0 .. (n - 1) |-> EmptyStack]
        /\ pushed' = [i \in 0 .. (n - 1) |-> <<>>]
        /\ written' = [i \in 0 .. (n - 1) |-> <<>>]
        /\ cbCount' = [i \in 0 .. (n - 1) |-> 0]
        /\ writing' = [i \in 0 .. (n - 1) |-> FALSE]
  /\ probe' = [probe EXCEPT !.state = "done"]
  /\ UNCHANGED <<length, allocBuffer, maxCapacity, reallocate, threw, lowered,
                 opts, server>>

\* the response interceptor's error handler (part_001:297-307): the probe
\* failed with an HTTP status (0: no response at all)
ShouldRetryProbeOnceMore(retryCount, retries, status) ==
  retryCount <= retries /\ ~(status # 0 /\ status = 403)
ShouldRetryProbeAny(retryCount, retries, status) ==
  retryCount < retries
ShouldRetryProbe(retryCount, retries, status) ==
  retryCount < retries /\ ~(status # 0 /\ status = 403)

ProbeFail(status) ==
  /\ probe.state = "inflight"
  /\ IF ShouldRetryProbe(probe.retryCount, store.retries, status)
     THEN /\ probe' = [probe EXCEPT
                         !.retryCount = @ + 1,
                         !.retryEvents = Append(@, [meta |-> TRUE,
                                                    retryCount |-> probe.retryCount + 1,
                                                    maxRetries |-> store.retries,
                                                    lastErr |-> status]),
                         !.requests = @ + 1,
                         !.lastErr = status]
          /\ UNCHANGED <<store, segs, core, self, output, events, error>>
     ELSE \* initHead's catch: this.emit('error', err)
          /\ probe' = [probe EXCEPT !.state = "failed", !.lastErr = status]
          /\ SetX(EmitError(XState, [kind |-> "probe", index |-> NoValue,
                                     status |-> status]))
  /\ UNCHANGED <<cacheVars, opts, server>>

\* the consumer's pull reaches _read
XRead ==
  /\ ~self.destroyed /\ ~store.ended
  /\ ~store.rQd \/ core.paused
  /\ SetX(read(XState))
  /\ UNCHANGED <<cacheVars, opts, server, probe>>

\* the slots the merge stream is piping: store.core.add(...streams)
\* (part_001:427-428) queues the slots and pipes them one at a time, in
\* the order of the plan
MergeSlotsAll(cur, n) == cur .. (n - 1)
MergeSlots(cur, n) == IF cur < n THEN {cur} ELSE {}

\* what the call that led to the cache state st pushed to slot c's reader
NewChunks(st, c) == SubSeq(st.pushed[c], Len(pushed[c]) + 1, Len(st.pushed[c]))

RECURSIVE NewData(_, _)
NewData(st, S) ==
  IF S = {} THEN <<>>
  ELSE LET c == CHOOSE m \in S : \A k \in S : m <= k
       IN SelectSeq(NewChunks(st, c), LAMBDA b : b # EOS) \o NewData(st, S \ {c})

\* what a call into the cache hands on: the chunks pushed to the slot the
\* merge stream is piping reach core's 'data' handler (part_001:429-433),
\* and the slot's end moves the merge stream on; after the last slot core
\* ends (part_001:434-438).  pause: this.push(data) returned false.
AfterCache(st, x, pause) ==
  LET c == x.core.cur
      ms == MergeSlots(c, Cardinality(DOMAIN x.segs))
      data == NewData(st, ms)
      fin == c \in ms /\ NewChunks(st, c) # <<>>
             /\ NewChunks(st, c)[Len(NewChunks(st, c))] = EOS
      x1 == IF data = <<>> THEN x
            ELSE [PushOut(x, data) EXCEPT
                    !.store.bytesRead = @ + Len(data),
                    !.store.hashFed = IF x.store.hasher THEN @ \o data ELSE @,
                    !.core.paused = pause]
      x2 == IF fin THEN [x1 EXCEPT !.core.cur = @ + 1] ELSE x1
  IN IF fin /\ x2.core.cur = Cardinality(DOMAIN x.segs)
     THEN PushEnd([x2 EXCEPT
                     !.store.hashData = IF x.store.hasher
                                        THEN Digest(x2.store.hashFed) ELSE @,
                     !.store.ended = TRUE])
     ELSE x2

CacheCall(st, x) ==
  /\ SetCache(st)
  /\ \E pause \in BOOLEAN : SetX(AfterCache(st, x, pause))

\* a segment's response delivers its next n bytes; the resilient stream
\* counts them and the pipe writes them to the segment's slot
SegDeliver(i, n) ==
  /\ segs[i].state = "open" /\ ~writing[i]
  /\ Satisfiable(segs[i].req)
  /\ LET body == Body(segs[i].req)
         bytes == SubSeq(body, segs[i].recv + 1, segs[i].recv + n)
     IN /\ segs[i].recv + n <= Len(body)
        /\ written' = [written EXCEPT ![i] = @ \o bytes]
        /\ CacheCall(cacheBytesOn(CacheState, maxCapacity, reallocate, i, DataChunk(bytes)),
                     [XState EXCEPT !.segs[i].recv = @ + n,
                                    !.segs[i].bytesRead = @ + n])
  /\ UNCHANGED <<maxCapacity, reallocate, lowered, opts, server, probe>>

\* a segment's response ends: the pipe ends the slot (CachingStream._final)
SegEnd(i) ==
  /\ segs[i].state = "open" /\ ~writing[i]
  /\ Satisfiable(segs[i].req)
  /\ segs[i].recv = Len(Body(segs[i].req))
  /\ written' = [written EXCEPT ![i] = Append(@, EOS)]
  /\ CacheCall(cacheBytesOn(CacheState, maxCapacity, reallocate, i, NullChunk),
               [XState EXCEPT !.segs[i].state = "done"])
  /\ UNCHANGED <<maxCapacity, reallocate, lowered, opts, server, probe>>

\* the resilient stream on an error of its source: a new request while
\* retries are left, else the error is emitted
CanRetry(seg, maxRetries) == seg.retryCount < maxRetries

\* the error handler handleChunk puts on the stream (part_001:405-408)
errHandlerNoIndex(x, index) ==
  destroy(x, [kind |-> "segment", index |-> NoValue, status |-> 0])
errHandler(x, index) ==
  destroy(x, [kind |-> "segment", index |-> index, status |-> 0])

SegError(i) ==
  /\ segs[i].state = "open"
  /\ segs[i].recv < Len(Body(segs[i].req)) \/ ~Satisfiable(segs[i].req)
  /\ IF CanRetry(segs[i], store.segRetries)
     THEN SetX([XState EXCEPT
                  !.segs[i].retryCount = @ + 1,
                  !.segs[i].req = RangeHeader(store.chunkStack[i], segs[i].bytesRead),
                  !.segs[i].recv = 0])
     ELSE SetX(errHandler([XState EXCEPT !.segs[i].state = "failed"], i))
  /\ UNCHANGED <<cacheVars, opts, server, probe>>

\* the merge stream asks a slot it is piping for data
MergeRead(c) ==
  /\ core.wired /\ ~core.paused
  /\ c \in MergeSlots(core.cur, NSegs)
  /\ items[c].pendingReads = 0 /\ ~Ended(c)
  /\ CacheCall(readBytesOn(CacheState, maxCapacity, reallocate, c), XState)
  /\ UNCHANGED <<maxCapacity, reallocate, lowered, written, opts, server, probe>>

Next ==
  \/ ProbeOk
  \/ \E status \in {0, 403, 500} : ProbeFail(status)
  \/ XRead
  \/ \E i \in SegIds, n \in 1 .. MaxSize : SegDeliver(i, n)
  \/ \E i \in SegIds : SegEnd(i)
  \/ \E i \in SegIds : SegError(i)
  \/ \E c \in SegIds : MergeRead(c)

Spec == InitXget /\ [][Next]_vars

----------------------------------------------------------------------------
(* The instance's life: destroy() called at any moment of a download,      *)
(* middleware that throws, listeners that pull (SpecLife); start(), use()  *)
(* and with() called at any moment of a small download (SpecApi).          *)

MaxCalls == 1          \* calls of use() and with() in a run

Tags == {"t"}

\* the state of the lifecycle the instance is in
Phase ==
  IF self.destroyed THEN "Destroyed"
  ELSE IF \E k \in 1 .. Len(events) : events[k] = "error" THEN "Errored"
  ELSE IF store.ended THEN "Ended"
  ELSE IF core.wired THEN "Running"
  ELSE IF store.loaded THEN "Loaded"
  ELSE IF probe.state = "idle" THEN "Constructed"
  ELSE "Probing"

InitLife ==
  /\ server \in {ServerOf(n, "range") : n \in 1 .. MaxSize}
  /\ opts \in {o @@ [hash |-> FALSE, cacheSize |-> MaxCacheSize,
                      withFns |-> Middleware, useFns |-> Middleware]
                   @@ PlainOptions :
                 o \in [start : 0 .. (MaxSize + 1), chunks : {1, MaxChunks},
                        retries : {0, MaxRetries},
                        useThrows : BOOLEAN, withThrows : BOOLEAN,
                        useFails : {"throws", "value"},
                        pullIn : {"none", "loaded", "set"}]}
  /\ opts.start \in {0, server.size, server.size + 1}
  /\ ~(opts.useThrows /\ opts.withThrows)
  /\ opts.useFails = "value" => opts.useThrows
  /\ Constructed

\* a download of one byte in one segment, started by hand or not
InitApi ==
  /\ server = ServerOf(1, "range")
  /\ opts \in {o @@ [start |-> 0, chunks |-> 1, hash |-> FALSE,
                      cacheSize |-> MaxCacheSize] @@ PlainOptions :
                 o \in [auto : BOOLEAN, retries : 0 .. MaxRetries]}
  /\ Constructed

\* start (part_001:560-561): !store.auto && !started && (initHead(), true)
ShouldStartUnlessAuto(auto, started) == ~auto
ShouldStart(auto, started) == ~auto /\ ~started

Start ==
  /\ LET go == ShouldStart(store.auto, self.started) IN
     /\ probe' = IF go THEN [probe EXCEPT !.state = "inflight",
                                           !.requests = @ + 1,
                                           !.begun = @ + 1]
                 ELSE probe
     /\ SetX([XState EXCEPT !.self.started = @ \/ go,
                            !.self.startRet = IF go THEN "true" ELSE "false"])
  /\ UNCHANGED <<cacheVars, opts, server>>

\* the consumer calls destroy(err) or destroy(); what was pending of the
\* probe at that moment is kept
Destroy(withErr) ==
  /\ ~self.destroyed
  /\ SetX(destroy([XState EXCEPT !.self.earlyDestroy = ~store.loaded,
                                 !.self.reqAtDestroy = probe.requests],
                  IF withErr
                  THEN [kind |-> "user", index |-> NoValue, status |-> 0]
                  ELSE NoError))
  /\ UNCHANGED <<cacheVars, opts, server, probe>>

\* what a call of use() or with() found: the outcome, store.loaded, the
\* lifecycle state and the middleware registered before it
CallRecord(x, op, ok, phase) ==
  [op |-> op, ok |-> ok, loaded |-> x.store.loaded, phase |-> phase,
   pipeStack |-> x.store.pipeStack, withStack |-> x.store.withStack]

\* use(tag, fn) (part_001:577-583): throws once loaded, else registers
useWhenever(x, tag, phase) ==
  [x EXCEPT !.self.lastCall = CallRecord(x, "use", TRUE, phase),
            !.store.pipeStack = @ \cup {tag}]
use(x, tag, phase) ==
  IF x.store.loaded
  THEN [x EXCEPT !.self.lastCall = CallRecord(x, "use", FALSE, phase)]
  ELSE [x EXCEPT !.self.lastCall = CallRecord(x, "use", TRUE, phase),
                 !.store.pipeStack = @ \cup {tag}]

\* with(tag, fn) (part_001:584-590)
withWhenever(x, tag, phase) ==
  [x EXCEPT !.self.lastCall = CallRecord(x, "with", TRUE, phase),
            !.store.withStack = @ \cup {tag}]
with(x, tag, phase) ==
  IF x.store.loaded
  THEN [x EXCEPT !.self.lastCall = CallRecord(x, "with", FALSE, phase)]
  ELSE [x EXCEPT !.self.lastCall = CallRecord(x, "with", TRUE, phase),
                 !.store.withStack = @ \cup {tag}]

Calls == IF self.lastCall.op = "none" THEN 0 ELSE 1

Use(tag) ==
  /\ Calls < MaxCalls
  /\ SetX(use(XState, tag, Phase))
  /\ UNCHANGED <<cacheVars, opts, server, probe>>

With(tag) ==
  /\ Calls < MaxCalls
  /\ SetX(with(XState, tag, Phase))
  /\ UNCHANGED <<cacheVars, opts, server, probe>>

NextLife ==
  \/ Next
  \/ \E withErr \in BOOLEAN : Destroy(withErr)

SpecLife == InitLife /\ [][NextLife]_vars

NextApi ==
  \/ Next
  \/ Start
  \/ \E withErr \in BOOLEAN : Destroy(withErr)
  \/ \E tag \in Tags : Use(tag)
  \/ \E tag \in Tags : With(tag)

SpecApi == InitApi /\ [][NextApi]_vars

\* destroy() at any moment of a download of a one-byte resource asked from
\* offset 0, 1 (nothing left) or 2 (past the end), started by hand or not;
\* the probe's request is eventually answered, with a response or a failure
InitTeardown ==
  /\ server = ServerOf(1, "range")
  /\ opts \in {o @@ [chunks |-> 1, hash |-> FALSE,
                      cacheSize |-> MaxCacheSize] @@ PlainOptions :
                 o \in [start : 0 .. 2, auto : BOOLEAN, retries : 0 .. MaxRetries]}
  /\ Constructed

ProbeSettles ==
  \/ \E status \in {0, 403, 500} : ProbeFail(status)
  \/ ProbeOk

NextTeardown ==
  \/ Next
  \/ Start
  \/ \E withErr \in BOOLEAN : Destroy(withErr)

SpecTeardown ==
  /\ InitTeardown /\ [][NextTeardown]_vars
  /\ WF_vars(ProbeSettles)

----------------------------------------------------------------------------
(* The download with segment responses whose status the instance looks at  *)
(* (SpecNet).                                                              *)

\* the statuses of the segment responses that are looked at
SegStatuses == {206, 404, 500}

InitNet ==
  /\ server \in {ServerOf(n, "range") : n \in 1 .. MaxSize}
  /\ opts \in {o @@ [start |-> 0, hash |-> FALSE, cacheSize |-> MaxCacheSize]
                   @@ PlainOptions :
                 o \in [chunks : 1 .. MaxChunks, retries : 0 .. MaxRetries]}
  /\ Constructed

\* the response listener handleChunk puts on the segment's stream
\* (part_001:386-390): a status that is not 2xx is emitted as an
\* XgetNetException on the resilient stream itself, where the error handler
\* of part_001:405-408 is listening
SegResponse(i, status) ==
  /\ segs[i].state = "open" /\ segs[i].recv = 0
  /\ IF checkIsValidStatusCode(status)
     THEN UNCHANGED <<store, segs, core, self, output, events, error>>
     ELSE SetX(destroy([XState EXCEPT !.segs[i].state = "failed"],
                       [kind |-> "segment", index |-> i, status |-> status]))
  /\ UNCHANGED <<cacheVars, opts, server, probe>>

NextNet ==
  \/ Next
  \/ \E i \in SegIds, status \in SegStatuses : SegResponse(i, status)

SpecNet == InitNet /\ [][NextNet]_vars

----------------------------------------------------------------------------
(* The probe alone, over every combination of the response's headers and   *)
(* with or without opts.size (SpecProbe).                                   *)

\* an origin whose answer to the probe carries any of content-length,
\* content-range and accept-ranges: bytes
Origins ==
  {[size |-> n, kind |-> "range", cl |-> cl, cr |-> cr, ar |-> ar] :
     n \in 1 .. MaxSize, cl \in BOOLEAN, cr \in BOOLEAN, ar \in BOOLEAN}

\* what headHandler returns: nothing or something that is not a number
\* (NoValue), or a number, negative or not
HeadReturns == {NoValue} \cup ((0 - 1) .. MaxSize)

InitProbe ==
  /\ server \in Origins
  /\ opts \in {o @@ PlainOptions :
                 o \in [size : {NoValue} \cup (1 .. MaxSize), start : 0 .. 1,
                        chunks : 1 .. MaxChunks, retries : 0 .. MaxRetries,
                        hash : {FALSE}, cacheSize : {MaxCacheSize},
                        headReturn : HeadReturns]}
  /\ Constructed

\* the probe is answered 2xx, or it fails: no response (0), or 416 Range
\* Not Satisfiable, which axios rejects as every status outside 2xx
NextProbe ==
  \/ ProbeOk
  \/ \E status \in {0, 416} : ProbeFail(status)

SpecProbe == InitProbe /\ [][NextProbe]_vars

----------------------------------------------------------------------------
(* The plan alone: xHeadData applied to resources and chunk counts large   *)
(* enough for every branch of the chunk count (SpecPlan).                  *)

PlanSize == 6          \* the largest resource planned
PlanChunks == 7        \* the largest chunk count configured

InitPlan ==
  /\ server \in {[size |-> n, kind |-> "range", cl |-> cl, cr |-> cr, ar |-> ar] :
                   n \in 1 .. PlanSize,
                   cl \in BOOLEAN, cr \in BOOLEAN, ar \in BOOLEAN}
  /\ opts \in {o @@ PlainOptions :
                 o \in [start : 0 .. (PlanSize + 1), chunks : 1 .. PlanChunks,
                        retries : 0 .. (MaxRetries + 1),
                        hash : {FALSE}, cacheSize : {MaxCacheSize}]}
  /\ opts.start <= server.size + 1
  /\ Constructed

NextPlan == ProbeOk

SpecPlan == InitPlan /\ [][NextPlan]_vars

----------------------------------------------------------------------------
(* Properties of the download.                                             *)

Emitted(e) == \E k \in 1 .. Len(events) : events[k] = e
IndexOf(e) == CHOOSE k \in 1 .. Len(events) : events[k] = e

\* the last offset a range covers on this origin
LastOf(data) == IF IsFinite(data.max) THEN data.max ELSE server.size - 1

\* the segments some byte written to the cache came from
SegsOf(b) == {i \in DOMAIN written :
                \E k \in 1 .. Len(written[i]) : written[i][k] = b}

\* C1: for a resource of size S, a start offset 0 <= k < S and a chunk
\* count 1 <= N <= S - k on an origin that supports ranges, under every
\* interleaving of deliveries and pulls the output is at any time a prefix
\* of the resource's bytes [k..S), and all of them once the output ended.
C1_OutputIsSuffix ==
  (server.kind = "range" /\ opts.start < server.size
     /\ opts.chunks <= server.size - opts.start)
  => /\ IsPrefix(output, Resource(opts.start, server.size - 1))
     /\ Emitted("end") => output = Resource(opts.start, server.size - 1)

\* C1's case: a download in MaxChunks segments ended
C1_TwoSegmentsEnded ==
  /\ server.kind = "range" /\ opts.start = 0
  /\ opts.chunks = MaxChunks /\ NSegs = MaxChunks
  /\ Emitted("end") /\ Len(output) = server.size

\* C2: in the output every byte of segment i comes before every byte of
\* segment j > i, and a byte of a segment is in the output only when every
\* earlier segment's end-of-stream sentinel has been consumed by the merge,
\* whatever the order in which the segments' data arrived.
C2_SegmentOrder ==
  /\ \A p, q \in 1 .. Len(output) :
       p < q => \A i \in SegsOf(output[p]), j \in SegsOf(output[q]) : i <= j
  /\ \A p \in 1 .. Len(output) :
       /\ SegsOf(output[p]) # {}
       /\ \A j \in SegsOf(output[p]) : \A i \in 0 .. (j - 1) : Ended(i)

\* C2's case: the second segment arrived whole while the first is still
\* being merged, and the output holds bytes of the first only
C2_LaterSegmentArrivedFirst ==
  /\ NSegs >= 2 /\ Finaled(1) /\ DataWritten(1) > 0
  /\ ~Ended(0) /\ ~Finaled(0)
  /\ Len(output) > 0 /\ \A p \in 1 .. Len(output) : SegsOf(output[p]) = {0}

\* C6: for a segment with range [min, max] hit by transport errors within
\* its retry cap, every request asks for min + (bytes delivered so far) up
\* to max (no upper end when max is infinite), the segment delivers
\* exactly its range's bytes, once and in order, and the output is that of
\* a run without errors.
C6_ResumedExactly ==
  /\ \A i \in DOMAIN segs :
       LET data == store.chunkStack[i]
           got == SelectSeq(written[i], LAMBDA b : b # EOS)
           all == Resource(IF HonoursRange THEN data.min ELSE 0, LastOf(data))
       IN /\ segs[i].state = "open" =>
               segs[i].req = [from |-> data.min + (segs[i].bytesRead - segs[i].recv),
                              to |-> IF IsFinite(data.max) THEN data.max ELSE NoUpper]
          /\ IsPrefix(got, all)
          /\ Finaled(i) => got = all
  /\ Emitted("end") =>
       output = Resource(IF HonoursRange THEN store.start ELSE 0, server.size - 1)

\* C6's failing state: the origin ignores the Range header, the retry's
\* response starts over and the segment delivers its first bytes twice
C6_BytesDeliveredTwice ==
  /\ ~HonoursRange
  /\ \E i \in DOMAIN segs :
       /\ segs[i].retryCount = 1 /\ segs[i].req.from > 0
       /\ DataWritten(i) > server.size
  /\ Emitted("end") /\ Len(output) > server.size

\* C7: in a chunkable download a segment that suffers one transport error
\* more than its retry cap makes the instance emit an error that carries
\* the index of that segment.
C7_ExhaustedSegmentError ==
  store.chunkable =>
    \A i \in DOMAIN segs :
      segs[i].state = "failed" =>
        /\ segs[i].retryCount = opts.retries
        /\ Emitted("error")
        /\ error.kind = "segment" /\ error.index = i

\* C7's case: the second segment used up its retries and failed
C7_SecondSegmentExhausted ==
  /\ store.chunkable /\ opts.retries > 0 /\ NSegs >= 2
  /\ segs[1].state = "failed" /\ segs[1].retryCount = opts.retries
  /\ error.kind = "segment"

\* C8: a failed probe is re-issued only while fewer than retries retries
\* were made; each re-issue is announced by a retry event with meta = true
\* and retryCount 1, 2, ... in order, so there are at most retries events
\* and retries + 1 requests, and then the last error is the instance's.
C8_ProbeRetries ==
  /\ Len(probe.retryEvents) <= opts.retries
  /\ \A k \in 1 .. Len(probe.retryEvents) :
       /\ probe.retryEvents[k].meta
       /\ probe.retryEvents[k].retryCount = k
  /\ probe.requests = Len(probe.retryEvents) + 1
  /\ probe.requests <= opts.retries + 1
  /\ probe.state = "failed" =>
       /\ Emitted("error")
       /\ error.kind = "probe" /\ error.status = probe.lastErr

\* C8's case: every retry was used and the probe failed
C8_ProbeExhausted ==
  /\ opts.retries = MaxRetries
  /\ probe.state = "failed" /\ error.status = 500
  /\ Len(probe.retryEvents) = MaxRetries /\ probe.requests = MaxRetries + 1

\* C9, as the code has it: a 403 answer to the probe is never retried, the
\* instance fails at once with that error, no retry event is emitted for
\* it and no further request is sent, whatever retries is; the retry
\* count stays the number of retries made before (0 when the 403 answers
\* the first request).
C9_ForbiddenNotRetried ==
  /\ \A k \in 1 .. Len(probe.retryEvents) : probe.retryEvents[k].lastErr # 403
  /\ probe.lastErr = 403 =>
       /\ probe.state = "failed"
       /\ Emitted("error") /\ error.kind = "probe" /\ error.status = 403
       /\ probe.retryCount = Len(probe.retryEvents)
       /\ probe.requests = probe.retryCount + 1

\* C9's case: retries are configured and the first answer is a 403
C9_ForbiddenAtFirstRequest ==
  /\ opts.retries > 0
  /\ probe.state = "failed" /\ error.status = 403
  /\ probe.retryCount = 0 /\ probe.requests = 1

\* C9 as stated: the failure on a 403 has retryCount 1
C9_RetryCountIsOne ==
  probe.lastErr = 403 => probe.state = "failed" /\ probe.retryCount = 1

\* C10: in every run loaded is emitted before set, set before any segment
\* data reaches the output, and end only after all bytes were emitted and
\* the hasher was finalized.
C10_EventOrder ==
  /\ Emitted("set") => Emitted("loaded") /\ IndexOf("loaded") < IndexOf("set")
  /\ output # <<>> => Emitted("set")
  /\ Emitted("end") =>
       /\ Len(output) = SumOver([i \in DOMAIN written |-> DataWritten(i)],
                                DOMAIN written)
       /\ store.hasher => store.hashData # <<NoValue>>

\* C10's failing state: the empty download ended, the configured hasher
\* was never finalized and neither loaded nor set was emitted
C10_EndedWithoutDigest ==
  /\ Emitted("end") /\ store.size = 0
  /\ store.hasher /\ store.hashData = <<NoValue>>
  /\ ~Emitted("loaded") /\ ~Emitted("set")

----------------------------------------------------------------------------
(* Properties of the instance's life.                                      *)

FirstError == CHOOSE k \in 1 .. Len(events) :
                /\ events[k] = "error"
                /\ \A j \in 1 .. (k - 1) : events[j] # "error"

\* C11: the error event is terminal: once the instance emitted an error
\* (from a probe failure, a middleware failure, a segment failure or
\* destroy(err)) it emits no further set, data, end or error event.
C11_ErrorIsTerminal ==
  Emitted("error") =>
    /\ \A k \in (FirstError + 1) .. Len(events) :
         events[k] \notin {"set", "end", "error"}
    /\ Len(output) = self.outAtError

\* C11's failing state: a with function threw, the error was emitted and
\* the instance was left undestroyed; destroy(err) then emitted another
C11_SecondError ==
  /\ Len(events) >= 2
  /\ events[Len(events)] = "error" /\ error.kind = "user"
  /\ events[Len(events) - 1] = "error"
  /\ store.withThrows /\ self.destroyed

\* C12: handleLoad wires and starts the segments at most once, and never
\* before the probe completed (loaded and set emitted) and the consumer
\* pulled for the first time, in whichever order the two happen, also when
\* the first pull comes from inside a loaded or set listener.
C12_SegmentsStartedOnce ==
  /\ store.loads <= 1
  /\ ~store.early
  /\ store.loads = 1 =>
       /\ probe.state = "done" /\ self.pulled
       /\ Emitted("loaded") /\ Emitted("set")
       /\ IndexOf("loaded") < IndexOf("set")
  /\ \A i \in DOMAIN segs :
       segs[i].state \in {"open", "done", "failed"} => store.loads = 1

\* C12's case: the first pull came from inside a loaded listener and the
\* segments were started when the probe's handler went on
C12_PulledInsideListener ==
  /\ opts.pullIn = "loaded"
  /\ store.loads = 1 /\ core.wired
  /\ \E i \in DOMAIN segs : segs[i].state = "open"

\* C13: if destroy() is called before the probe completed, the instance
\* emits no end event afterwards and every pending request is aborted: no
\* request stays in flight and none is sent later.
C13_EarlyDestroyAborts ==
  self.earlyDestroy =>
    /\ ~Emitted("end")
    /\ probe.state # "inflight"
    /\ probe.requests = self.reqAtDestroy
    /\ \A i \in DOMAIN segs : segs[i].state # "open"

\* C13's failing state: after the destroy() the probe's request failed
\* and was sent again, with its retry event
C13_ProbeRetriedAfterDestroy ==
  /\ self.earlyDestroy /\ self.destroyed
  /\ probe.requests > self.reqAtDestroy
  /\ Len(probe.retryEvents) > 0

\* C14: with auto = true the probe begins at construction and start()
\* returns false and starts nothing; with auto = false no probe request is
\* made until start() is called, the first start() begins the probe and
\* returns true, every later start() returns false and changes nothing:
\* the probe is begun at most once.
C14_StartOnce ==
  /\ [](/\ probe.begun <= 1
        /\ opts.auto =>
             (probe.begun = 1 /\ self.startRet \in {"none", "false"})
        /\ (~opts.auto /\ ~self.started) =>
             (/\ probe.begun = 0 /\ probe.requests = 0
              /\ probe.state = "idle" /\ self.startRet = "none")
        /\ (~opts.auto /\ self.started) =>
             (probe.begun = 1 /\ self.startRet \in {"true", "false"}))
  /\ [][((self'.startRet = "true" /\ self.startRet # "true") =>
            (/\ ~self.started /\ self'.started
             /\ probe.begun = 0 /\ probe'.begun = 1
             /\ probe'.state = "inflight" /\ probe'.requests = 1))
         /\ (self.started =>
               (/\ self'.startRet \in {self.startRet, "false"}
                /\ probe'.begun = probe.begun))]_vars

\* C14's case: without auto, start() was called again after the first call
C14_StartedTwice ==
  /\ ~opts.auto /\ self.started
  /\ self.startRet = "false" /\ probe.begun = 1

\* C15: a use() or with() call made once the instance is loaded throws and
\* leaves both middleware stacks as they were before the call.
C15_RejectedOnceLoaded ==
  (self.lastCall.op # "none" /\ self.lastCall.loaded) =>
    /\ ~self.lastCall.ok
    /\ store.pipeStack = self.lastCall.pipeStack
    /\ store.withStack = self.lastCall.withStack

\* C15's case: use() was called on a loaded instance
C15_UseAfterLoaded ==
  /\ self.lastCall.op = "use" /\ self.lastCall.loaded
  /\ store.loaded /\ store.pipeStack = {}

\* C16: a use() or with() call succeeds exactly when the instance is not
\* yet loaded: it succeeds while Constructed and while Probing, and it is
\* rejected in Loaded and Running.
C16_RegisteredUntilLoaded ==
  self.lastCall.op # "none" =>
    /\ self.lastCall.ok <=> ~self.lastCall.loaded
    /\ self.lastCall.phase \in {"Constructed", "Probing"} => self.lastCall.ok
    /\ self.lastCall.phase \in {"Loaded", "Running"} => ~self.lastCall.ok

\* C16 as stated: registration succeeds only in the Constructed state
C16_OnlyInConstructed ==
  (self.lastCall.op # "none" /\ self.lastCall.ok) =>
    self.lastCall.phase = "Constructed"

\* C16's case: with() registered a middleware while the probe was in flight
C16_RegisteredWhileProbing ==
  /\ self.lastCall.op = "with" /\ self.lastCall.ok
  /\ self.lastCall.phase = "Probing" /\ store.withStack = Tags

----------------------------------------------------------------------------
(* Properties of the probe.                                                *)

\* the response carried accept-ranges: bytes or a content-range
Advertised == server.ar \/ server.cr

\* C17: once the probe has completed, chunkable is true exactly when the
\* server advertised byte-range support and totalSize is finite.
C17_ChunkableIff ==
  probe.state = "done" =>
    (store.chunkable <=> (Advertised /\ IsFinite(store.totalSize)))

\* C17's case: ranges advertised through content-range, a finite totalSize,
\* and yet not chunkable
C17_AdvertisedFiniteNotChunkable ==
  /\ probe.state = "done" /\ store.loaded
  /\ Advertised /\ IsFinite(store.totalSize)
  /\ ~store.chunkable

\* C18: once the probe has completed, the server is taken to accept ranges
\* whenever the response carried accept-ranges: bytes or a content-range,
\* whichever of the three headers were present.
C18_AcceptsWhenAdvertised ==
  probe.state = "done" => (Advertised => store.acceptsRanges)

\* C18's case: content-length and content-range without accept-ranges
C18_ContentRangeIgnored ==
  /\ probe.state = "done"
  /\ server.cl /\ server.cr /\ ~server.ar
  /\ ~store.acceptsRanges /\ store.start = 0

\* C19: once the probe was answered 416, chunkable is false.
C19_NotChunkableAfter416 ==
  (probe.state = "failed" /\ probe.lastErr = 416) => ~store.chunkable

\* C19's case: the probe answered 416 ended in an error, nothing was loaded
C19_ProbeFailedOn416 ==
  /\ probe.state = "failed" /\ probe.lastErr = 416
  /\ error.kind = "probe" /\ error.status = 416
  /\ ~store.loaded /\ store.headCalls = 0 /\ store.chunkable

\* C20: headHandler is called at most once per instance, it has been
\* called exactly when the probe has completed with a 2xx response (never
\* on a failed attempt or a retry of the probe), and the call was made when
\* loaded was emitted.
C20_HeadHandlerOnce ==
  /\ store.headCalls <= 1
  /\ store.headCalls = 1 <=> probe.state = "done"
  /\ Emitted("loaded") => store.headAtLoaded = 1

\* C20's case: the probe failed once, was retried and completed, and loaded
\* was emitted
C20_LoadedAfterProbeRetry ==
  /\ probe.retryCount >= 1 /\ probe.state = "done"
  /\ Emitted("loaded") /\ store.headCalls = 1

\* C21: fetching begins at 0 when the server is taken not to accept
\* ranges; otherwise at headHandler's return value whenever that value is a
\* number, negative ones included, and at the configured start when it is
\* not a number.
C21_StartFrom ==
  probe.state = "done" =>
    store.start = (IF ~store.acceptsRanges THEN 0
                   ELSE IF opts.headReturn # NoValue THEN opts.headReturn
                   ELSE opts.start)

\* C21 as stated: only a non-negative integer returned overrides the start
C21_StartFromNonNegative ==
  probe.state = "done" =>
    store.start = (IF ~store.acceptsRanges THEN 0
                   ELSE IF opts.headReturn # NoValue /\ opts.headReturn >= 0
                        THEN opts.headReturn
                   ELSE opts.start)

\* C21's case: headHandler returned a negative number to a server that
\* accepts ranges
C21_NegativeOffsetTaken ==
  /\ probe.state = "done" /\ store.acceptsRanges
  /\ opts.headReturn # NoValue /\ opts.headReturn < 0
  /\ opts.start >= 0 /\ store.start = opts.headReturn

----------------------------------------------------------------------------
(* Properties of the plan.                                                 *)

\* C22: for a size of at least 1 derived from the probe, one segment is
\* planned when the download is not chunkable (the server is taken not to
\* accept ranges, or the total size is not finite); otherwise 1 when
\* size < c and size < 5, 5 when size < c and size >= 5, c when size >= c.
C22_SegmentCount ==
  (probe.state = "done" /\ store.size >= 1) =>
    NSegs = (IF ~store.chunkable THEN 1
             ELSE IF store.size < opts.chunks
                  THEN (IF store.size < 5 THEN 1 ELSE 5)
             ELSE opts.chunks)

\* C22 as stated: one segment only when the server does not accept ranges
C22_SegmentCountByRanges ==
  (probe.state = "done" /\ store.size >= 1) =>
    NSegs = (IF ~store.acceptsRanges THEN 1
             ELSE IF store.size < opts.chunks
                  THEN (IF store.size < 5 THEN 1 ELSE 5)
             ELSE opts.chunks)

\* C22's case: five segments for a size of at least 5 with more chunks
\* configured
C22_FiveSegments ==
  /\ probe.state = "done" /\ store.chunkable
  /\ store.size >= 5 /\ store.size < opts.chunks /\ NSegs = 5

\* C23: for a finite size of at least 1 the plan has n ranges, the first
\* starts at start, each next one starts right after the one before, the
\* last ends at start + size - 1 (totalSize - 1 when the size is derived);
\* every range but the last has floor(size / n) bytes and the last has the
\* rest, so the ranges cover [start, start + size - 1] without gap or
\* overlap.
C23_PlanCovers ==
  \* 1024 bytes in 4 chunks
  /\ LET r(i) == buildChunks(parseSplitSpec(1024, 4), 0, i) IN
     <<r(0).min, r(0).max, r(1).min, r(1).max,
       r(2).min, r(2).max, r(3).min, r(3).max>>
       = <<0, 255, 256, 511, 512, 767, 768, 1023>>
  /\ (probe.state = "done" /\ store.size >= 1 /\ IsFinite(store.size)) =>
    LET n == NSegs
        q == store.size \div n
        plan == store.chunkStack
    IN /\ n >= 1
       /\ plan[0].min = store.start
       /\ \A i \in 1 .. (n - 1) : plan[i].min = plan[i - 1].max + 1
       /\ plan[n - 1].max = store.start + store.size - 1
       /\ opts.size = NoValue => plan[n - 1].max = store.totalSize - 1
       /\ \A i \in 0 .. (n - 2) : plan[i].size = q
       /\ plan[n - 1].size = store.size - q * (n - 1)
       /\ \A i \in 0 .. (n - 1) :
            /\ plan[i].size >= 1
            /\ plan[i].max - plan[i].min + 1 = plan[i].size

\* C23's case: three ranges or more from an offset, with a remainder for
\* the last one
C23_UnevenPlan ==
  /\ probe.state = "done" /\ IsFinite(store.size)
  /\ NSegs >= 3 /\ store.start > 0
  /\ store.size % NSegs # 0
  /\ store.chunkStack[NSegs - 1].size > store.chunkStack[0].size

----------------------------------------------------------------------------
(* Properties of the empty and of the exceeded range.                      *)

\* C24: when the start lies past the end of the resource (size < 0) the
\* instance fails: an error event is emitted, carrying the range error, and
\* no byte, no loaded and no end event is.
C24_RangeExceededFails ==
  (probe.state = "done" /\ store.size < 0) =>
    /\ events = <<"error">>
    /\ error.kind = "range"
    /\ output = <<>>
    /\ self.destroyed
    /\ \A i \in SegIds : segs[i].state # "open"

\* C24's case: the probe completed for a start one past the last byte's
\* successor
C24_StartPastEnd ==
  /\ probe.state = "done" /\ store.size < 0
  /\ store.start > store.totalSize /\ Emitted("error")

\* C25: when the size is exactly 0 the output ends at once with zero bytes
\* and the instance is Ended; the plan holds one empty range, whose segment
\* is never started: no request is made for it and nothing is wired.
C25_EmptyRangeEnds ==
  (probe.state = "done" /\ store.size = 0) =>
    /\ events = <<"end">> /\ output = <<>>
    /\ store.ended /\ Phase = "Ended"
    /\ store.loads = 0 /\ ~core.wired
    /\ NSegs = 1 /\ store.chunkStack[0].size = 0
    /\ \A i \in SegIds : segs[i].state = "idle"

\* C25 as stated: no segment is created
C25_NoSegmentCreated ==
  (probe.state = "done" /\ store.size = 0) => NSegs = 0

\* C25's case: the start is the size of the resource
C25_StartAtEnd ==
  /\ probe.state = "done" /\ store.size = 0
  /\ store.start = store.totalSize /\ store.start > 0
  /\ store.ended

----------------------------------------------------------------------------
(* Properties of the hasher tap.                                           *)

\* C26: with a hash configured, getHash returns at every point the digest
\* of exactly the bytes emitted so far, in output order, and after end the
\* digest of the complete emitted content.
C26_HashOfOutput ==
  store.hasher => getHash(store) = Digest(output)

\* C26's failing state: an empty download has ended and getHash has no
\* digest to return
C26_NoDigestOfNothing ==
  /\ store.hasher /\ store.ended /\ Emitted("end")
  /\ output = <<>> /\ getHash(store) # Digest(<<>>)

----------------------------------------------------------------------------
(* Properties of the middleware.                                           *)

\* C27: when a with function throws, the first error the instance emits
\* has a context that carries the tag of that function and the with source;
\* the functions before it ran, it and the ones after it did not return,
\* set is not emitted and no segment is started.
C27_WithErrorTagged ==
  (store.withThrows /\ probe.state = "done" /\ store.size > 0) =>
    /\ Emitted("loaded") /\ Emitted("error") /\ ~Emitted("set")
    /\ self.firstErr.kind = "with"
    /\ getErrContext(self.firstErr) = [tag |-> Thrower, source |-> "xget:with"]
    /\ \A k \in 1 .. Len(store.withFns) :
         (\E j \in 1 .. Len(store.withRan) : store.withRan[j] = store.withFns[k])
           <=> k < ThrowAt(store.withFns, TRUE)
    /\ store.loads = 0 /\ ~core.wired /\ output = <<>>
    /\ \A i \in SegIds : segs[i].state \in {"idle", "destroyed"}

\* C27's case: the second of three with functions threw after the consumer
\* had pulled
C27_SecondWithThrew ==
  /\ store.withThrows /\ probe.state = "done" /\ store.rQd
  /\ store.withRan = <<"a">> /\ error.kind = "with" /\ error.tag = "b"

\* C28: when a use factory throws or returns a value that is no duplex
\* stream while the pipelines are built, every segment of the plan is
\* destroyed, the first error the instance emits carries the factory's tag
\* and the use source, no later factory is called, no exception leaves the
\* instance and no byte is emitted.
C28_UseErrorTagged ==
  (store.useThrows /\ store.loads >= 1) =>
    /\ \A i \in SegIds : segs[i].state = "destroyed"
    /\ Emitted("error") /\ self.firstErr.kind = "use"
    /\ getErrContext(self.firstErr) = [tag |-> Thrower, source |-> "xget:use"]
    /\ \A k \in 1 .. Len(store.useFns) :
         (\E j \in 1 .. Len(store.useRan) : store.useRan[j] = store.useFns[k])
           <=> k < ThrowAt(store.useFns, TRUE)
    /\ ~self.uncaught
    /\ output = <<>>

\* C28's failing state: the factory returned a value that is no stream to
\* a consumer that had pulled before the probe completed; the first error
\* emitted is the untagged TypeError, the tagged error follows
C28_TypeErrorFirst ==
  /\ store.useThrows /\ store.useFails = "value" /\ ~self.earlyDestroy
  /\ events = <<"loaded", "set", "error", "error">>
  /\ self.firstErr.kind = "type" /\ error.kind = "use"

----------------------------------------------------------------------------
(* Properties of the retries.                                              *)

\* C29: when the server is taken not to accept ranges, the retry limit
\* given to the single segment never exceeds 1 and never exceeds the
\* configured retries.
C29_RetriesCapped ==
  (probe.state = "done" /\ ~store.acceptsRanges) =>
    /\ NSegs = 1
    /\ store.segRetries <= 1
    /\ store.segRetries <= opts.retries

\* C29's failing state: no retries configured, and the segment of a server
\* without ranges is given one
C29_RetryGivenToNone ==
  /\ probe.state = "done" /\ ~store.acceptsRanges
  /\ opts.retries = 0 /\ store.retries = 0
  /\ store.segRetries = 1

----------------------------------------------------------------------------
(* Properties of the cache under fair scheduling.                          *)

\* C31: with reallocate = false and any capacity >= 0, when every producer
\* writes a finite sequence of chunks and then the sentinel, each write
\* after the previous completion, and the consumer keeps reading the slots
\* in index order, every completion is eventually invoked and the consumer
\* eventually receives every slot's sentinel.
C31_NoDeadlock ==
  /\ \A s \in Slots : (writing[s] ~> ~writing[s])
  /\ <>(\A s \in Slots : Ended(s) /\ pushed[s] = written[s])

\* C31's case: the store is full of a later slot's data while the write of
\* the slot the consumer is at waits in the queue, its completion withheld
C31_FullOfOthers ==
  /\ ~reallocate /\ maxCapacity > 0 /\ length >= maxCapacity
  /\ items[0].buffer = <<>> /\ items[1].buffer # <<>>
  /\ writing[0] /\ ~Ended(0)
  /\ \E k \in 1 .. Len(allocBuffer) : allocBuffer[k].slot = 0

\* what a slot's buffer will hand to the reader, flat
RECURSIVE FlatBuf(_)
FlatBuf(buf) == IF buf = <<>> THEN <<>> ELSE Flat(Head(buf)) \o FlatBuf(Tail(buf))

\* C32: the completion of an accepted write is invoked at most once, and
\* not before every byte of the chunk is in the slot's buffer or was handed
\* to the slot's reader; until then it is withheld.
C32_CompletionAfterAdmission ==
  /\ [](\A s \in DOMAIN pushed :
          ~writing[s] => (pushed[s] \o FlatBuf(items[s].buffer) = written[s]))
  /\ [][\A s \in DOMAIN pushed :
          /\ (cbCount'[s] = cbCount[s] \/ cbCount'[s] = cbCount[s] + 1)
          /\ ((cbCount'[s] = cbCount[s] + 1) =>
                (writing[s] \/ written'[s] # written[s]))]_vars

\* C32's case: one write was split, its head and its tail are both in the
\* slot's buffer and the one completion was invoked
C32_CompletedAfterSplit ==
  \E s \in DOMAIN pushed :
    /\ ~writing[s] /\ cbCount[s] = 1 /\ ~Finaled(s)
    /\ pushed[s] = <<>> /\ Len(items[s].buffer) = 2

\* C33: a read on a slot whose buffer is not empty pops the head chunk and
\* delivers it, and the dispatcher runs within the same step: when the read
\* returns, no queued write that fits is left waiting.
C33_ReadThenDispatch ==
  [][\A s \in DOMAIN items :
       (/\ written' = written /\ maxCapacity' = maxCapacity
        /\ items[s].buffer # <<>> /\ items[s].pendingReads = 0
        /\ pushed'[s] = pushed[s] \o Flat(Head(items[s].buffer)))
       => (/\ items'[s].buffer = Tail(items[s].buffer)
           /\ (allocBuffer' = <<>> \/ length' >= maxCapacity'))]_vars

\* C33's failing state: a read was served from the slot's buffer and
\* returned while a queued write that fits still waits
C33_FittingWriteLeftQueued ==
  /\ ~reallocate /\ ~lowered
  /\ allocBuffer # <<>> /\ length < maxCapacity
  /\ \E s \in DOMAIN items :
       /\ pushed[s] # <<>> /\ items[s].pendingReads = 0
       /\ \E k \in 1 .. Len(allocBuffer) : allocBuffer[k].slot # s

\* C34: with reallocate = false, when the dispatcher admits a queued chunk
\* larger than the available capacity avail > 0, exactly the first avail
\* bytes are appended to the slot's buffer, length grows by avail, the tail
\* replaces the entry at the same queue position with the same slot and
\* completion, and the completion is not invoked.
C34_SplitInPlace ==
  ~reallocate =>
    \A k \in 1 .. Len(allocBuffer) :
      LET e == allocBuffer[k]
          avail == maxCapacity - length
      IN (e.wf /\ ~e.chunk.null /\ avail > 0 /\ Len(e.chunk.bytes) > avail) =>
           LET st == Admit(CacheState, maxCapacity, reallocate, k - 1, e) IN
           /\ st.items[e.slot].buffer =
                Append(items[e.slot].buffer, DataChunk(SubSeq(e.chunk.bytes, 1, avail)))
           /\ st.length = length + avail
           /\ st.allocBuffer =
                [allocBuffer EXCEPT ![k] =
                   [slot |-> e.slot, wf |-> TRUE,
                    chunk |-> DataChunk(SubSeq(e.chunk.bytes, avail + 1, Len(e.chunk.bytes)))]]
           /\ st.cbCount = cbCount /\ st.writing = writing /\ writing[e.slot]
           /\ st.pushed = pushed

\* C34's case: the head of a split chunk is in its slot's buffer, the store
\* is full, and the tail waits at the front of the queue, before the
\* other slot's write that was queued after it
C34_TailKeptItsPlace ==
  /\ ~reallocate /\ length = maxCapacity /\ Len(allocBuffer) = 2
  /\ \E s \in DOMAIN items :
       /\ allocBuffer[1].slot = s /\ allocBuffer[2].slot # s
       /\ writing[s] /\ cbCount[s] = 0 /\ pushed[s] = <<>>
       /\ items[s].buffer # <<>>
       /\ FlatBuf(items[s].buffer) \o allocBuffer[1].chunk.bytes = written[s]

\* C35: with reallocate = true the tail of a split chunk is queued again
\* at the end of the admit queue, bound to the same slot and completion,
\* and is later admitted or delivered to that slot: every queued entry has
\* its slot and completion, no call fails, and what a slot pushed, holds
\* and has queued is what was written to it.
C35_TailRequeuedBound ==
  reallocate =>
    /\ \A k \in 1 .. Len(allocBuffer) : allocBuffer[k].wf
    /\ ~threw
    /\ \A s \in DOMAIN pushed :
         ~writing[s] => (pushed[s] \o FlatBuf(items[s].buffer) = written[s])

\* C35's failing state: the tail was queued again without slot and
\* completion, the dispatch that reached it failed, and the write it
\* belongs to is never completed
C35_TailUnbound ==
  /\ reallocate /\ threw
  /\ \E k \in 1 .. Len(allocBuffer) : ~allocBuffer[k].wf
  /\ \E s \in DOMAIN pushed :
       /\ writing[s] /\ cbCount[s] = 0
       /\ Len(FlatBuf(items[s].buffer)) < Len(written[s])
       /\ \A k \in 1 .. Len(allocBuffer) : ~allocBuffer[k].wf

IsSuffix(p, q) ==
  Len(p) <= Len(q) /\ \A i \in 1 .. Len(p) : p[i] = q[Len(q) - Len(p) + i]

\* C36: setCapacity(n) changes the capacity only: length, every slot's
\* buffer and counters and the admit queue stay as they are, also when n is
\* below the current length; and while length is not below the capacity no
\* call admits anything into a slot's buffer.
C36_OnlyCapacity ==
  [][/\ (maxCapacity' # maxCapacity) =>
          UNCHANGED <<items, length, allocBuffer, reallocate, pushed, cbCount,
                      writing, written>>
     /\ (maxCapacity' = maxCapacity /\ length >= maxCapacity) =>
          (/\ length' <= length
           /\ \A s \in DOMAIN items :
                IsSuffix(FlatBuf(items'[s].buffer), FlatBuf(items[s].buffer)))]_vars

\* C36's case: the capacity was lowered below the current length and a
\* write made since waits in the queue, nothing of it admitted
C36_LoweredBelowLength ==
  /\ lowered /\ ~reallocate /\ length > maxCapacity
  /\ \E s \in DOMAIN items :
       /\ writing[s] /\ cbCount[s] >= 1 /\ pushed[s] = <<>>
       /\ Len(FlatBuf(items[s].buffer)) = length
       /\ \E k \in 1 .. Len(allocBuffer) :
            /\ allocBuffer[k].slot = s
            /\ FlatBuf(items[s].buffer) \o Flat(allocBuffer[k].chunk) = written[s]

----------------------------------------------------------------------------
(* Properties of the instance's teardown.                                  *)

\* _destroy's callback was called: the teardown ran and the cause, if one
\* was given, was emitted
TeardownDone ==
  /\ self.destroyed /\ ~self.deferred /\ self.pendingErr = NoError
  /\ (self.cause # NoError) => Emitted("error")

\* C37: every destroy() call eventually completes, whatever happens to the
\* probe: the teardown runs and the cause, if one was supplied, is emitted
\* as the error event.
C37_DestroyCompletes == self.destroyed ~> TeardownDone

\* C37's failing state: destroy(err) was called before the probe completed,
\* the probe has failed for good, the teardown waits for a loaded event
\* that cannot come and the cause was not emitted
C37_TeardownNeverRuns ==
  /\ self.destroyed /\ self.deferred /\ self.cause # NoError
  /\ probe.state = "failed"
  /\ error.kind = "probe"

\* how many times the event e was emitted
CountOf(e) == Cardinality({k \in 1 .. Len(events) : events[k] = e})

\* C38: once destroy() has been called, no with function and no use factory
\* is invoked, set is not emitted, and no segment is wired or started, also
\* when destroy() was called before the probe completed and after the
\* consumer's first pull.
C38_NothingAfterDestroy ==
  [][self.destroyed =>
       (/\ store'.withRan = store.withRan
        /\ store'.useRan = store.useRan
        /\ store'.loads = store.loads
        /\ Cardinality({k \in 1 .. Len(events') : events'[k] = "set"}) = CountOf("set")
        /\ core'.wired = core.wired
        /\ \A i \in DOMAIN segs' :
             (segs'[i].state = "open") => (i \in DOMAIN segs /\ segs[i].state = "open"))]_vars

\* C38's failing state: destroy() was called after the first pull and
\* before the probe completed; when the probe completed every with
\* function and every use factory was called, set was emitted and the
\* segments were added to the merge stream
C38_MiddlewareRanAfterDestroy ==
  /\ self.destroyed /\ self.earlyDestroy /\ self.pulled
  /\ ~store.withThrows /\ ~store.useThrows
  /\ store.withRan = Middleware /\ store.useRan = Middleware
  /\ Emitted("set") /\ store.loads = 1 /\ core.wired

----------------------------------------------------------------------------
(* Properties of the end of a download.                                    *)

\* C39: whenever an instance with a hash has ended, by any path, the empty
\* download included, the final digest has been stored: getHash returns the
\* digest of the bytes emitted.
C39_DigestStoredAtEnd ==
  (store.hasher /\ store.ended) =>
    /\ store.hashData # <<NoValue>>
    /\ store.hashData = Digest(output)
    /\ getHash(store) = store.hashData

\* C39's failing state: the probe found nothing to download, the instance
\* ended with a hasher that was fed nothing and never finalized
C39_EmptyEndedNoDigest ==
  /\ probe.state = "done" /\ store.size = 0 /\ store.ended
  /\ store.hasher /\ store.hashFed = <<>>
  /\ getHash(store) = <<NoValue>>

\* C40: whenever an instance reaches Ended, loaded and then set were
\* emitted earlier in that run, for every probed size, 0 included.
C40_AnnouncedBeforeEnd ==
  (Phase = "Ended") =>
    /\ Emitted("loaded") /\ Emitted("set")
    /\ IndexOf("loaded") < IndexOf("set")
    /\ Emitted("end") => IndexOf("set") < IndexOf("end")

\* C40's failing state: the instance is Ended and end is the only event it
\* emitted
C40_EndedUnannounced ==
  /\ Phase = "Ended" /\ store.loaded
  /\ CountOf("end") = 1 /\ CountOf("loaded") = 0 /\ CountOf("set") = 0
  /\ store.start = server.size

====
